---------------------------- MODULE Spec2Model ----------------------------
(***************************************************************************)
(* dynamodb_bulk_edit (src/src/main.rs): bulk renaming of attributes in    *)
(* the items of a DynamoDB table, written back with conditional puts.      *)
(*                                                                         *)
(* Strings are sequences of one-character strings, so that the raw string  *)
(* operations of the code (ends_with, trim, "." joins) are computed and    *)
(* not assumed.  An AttributeValue is a tagged record: S(n) a scalar,      *)
(* M(m) a map (HashMap<String, AttributeValue>), L(l) a list.              *)
(***************************************************************************)
EXTENDS Integers, Sequences, FiniteSets, TLC

(***************************************************************************)
(* Strings and maps                                                        *)
(***************************************************************************)
EndsWith(s, p) == Len(p) <= Len(s) /\ SubSeq(s, Len(s) - Len(p) + 1, Len(s)) = p

S(n) == [t |-> "S", v |-> n]

M(m) == [t |-> "M", m |-> m]

L(l) == [t |-> "L", l |-> l]

EmptyMap == [x \in {} |-> x]

\* HashMap::remove: the map without the key.
MapRemove(m, k) == [x \in DOMAIN m \ {k} |-> m[x]]

\* HashMap::insert: the map with the key bound to the value (any old binding displaced).
MapInsert(m, k, v) == [x \in DOMAIN m \cup {k} |-> IF x = k THEN v ELSE m[x]]

(***************************************************************************)
(* replace (the rewrite engine)                                            *)
(***************************************************************************)
\* struct Replace
Replace(root, prefix, from, to) == [root |-> root, prefix |-> prefix, from |-> from, to |-> to]

\* A rule on the top-level map: the directive `from>to`.
RootRule(from, to) == Replace(TRUE, <<>>, from, to)

\* #[derive(Default)] struct ReplaceResult
ReplaceResultDefault == [replacements |-> 0, overwrites |-> 0]

\* Mutant of Fires: a suffix rule matches whole trailing segments only.
FiresAtSegments(path, replacement) ==
    \/ path = replacement.prefix
    \/ (~replacement.root /\ (replacement.prefix = <<>>
                              \/ EndsWith(path, <<".">> \o replacement.prefix)))

\* The condition of line 243: the rule applies at the map with this dotted path.
Fires(path, replacement) ==
    \/ path = replacement.prefix
    \/ (~replacement.root /\ EndsWith(path, replacement.prefix))

\* Mutant of ApplyRule: the value is copied to `to` and `from` is left in place.
ApplyRuleCopy(path, st, replacement) ==
    IF Fires(path, replacement) /\ replacement.from \in DOMAIN st.attribute
    THEN [attribute |-> MapInsert(st.attribute, replacement.to, st.attribute[replacement.from]),
          result |-> [replacements |-> st.result.replacements + 1,
                      overwrites |-> st.result.overwrites
                                     + (IF replacement.to \in DOMAIN st.attribute THEN 1 ELSE 0)]]
    ELSE st

\* Mutant of ApplyRule: the replacement is not counted.
ApplyRuleNoCount(path, st, replacement) ==
    IF Fires(path, replacement) /\ replacement.from \in DOMAIN st.attribute
    THEN LET value == st.attribute[replacement.from]
             removed == MapRemove(st.attribute, replacement.from)
         IN [attribute |-> MapInsert(removed, replacement.to, value),
             result |-> [replacements |-> st.result.replacements,
                         overwrites |-> st.result.overwrites
                                        + (IF replacement.to \in DOMAIN removed THEN 1 ELSE 0)]]
    ELSE st

\* Mutant of ApplyRule: an overwrite is counted when `to` is in the map before
\* `from` is removed.
ApplyRuleCountsBefore(path, st, replacement) ==
    IF Fires(path, replacement) /\ replacement.from \in DOMAIN st.attribute
    THEN LET value == st.attribute[replacement.from]
             removed == MapRemove(st.attribute, replacement.from)
         IN [attribute |-> MapInsert(removed, replacement.to, value),
             result |-> [replacements |-> st.result.replacements + 1,
                         overwrites |-> st.result.overwrites
                                        + (IF replacement.to \in DOMAIN st.attribute
                                           THEN 1 ELSE 0)]]
    ELSE st

\* One iteration of the loop over the rules (lines 243-250) on the state
\* st = [attribute, result]: remove `from`, insert its value under `to`.
ApplyRule(path, st, replacement) ==
    IF Fires(path, replacement) /\ replacement.from \in DOMAIN st.attribute
    THEN LET value == st.attribute[replacement.from]
             removed == MapRemove(st.attribute, replacement.from)
         IN [attribute |-> MapInsert(removed, replacement.to, value),
             result |-> [replacements |-> st.result.replacements + 1,
                         overwrites |-> st.result.overwrites
                                        + (IF replacement.to \in DOMAIN removed THEN 1 ELSE 0)]]
    ELSE st

\* Mutant of ApplyRules: the rules are applied last to first.
RECURSIVE ApplyRulesReversed(_, _, _, _)
ApplyRulesReversed(path, st, replacements, i) ==
    IF i > Len(replacements) THEN st
    ELSE ApplyRulesReversed(path,
                            ApplyRule(path, st, replacements[Len(replacements) + 1 - i]),
                            replacements, i + 1)

\* The loop of lines 242-251: the rules in the order supplied, each on the map
\* as the rules before it left it.
RECURSIVE ApplyRules(_, _, _, _)
ApplyRules(path, st, replacements, i) ==
    IF i > Len(replacements) THEN st
    ELSE ApplyRules(path, ApplyRule(path, st, replacements[i]), replacements, i + 1)

\* Mutant of NewPath: a child keeps its parent's path.
NewPathOfParent(path, key) == path

\* Lines 255-259.
NewPath(path, key) == IF path = <<>> THEN key ELSE path \o <<".">> \o key

RECURSIVE replace(_, _, _, _)
RECURSIVE VisitChildren(_, _, _, _)
\* Mutant of VisitChildren: the maps held in a list are rewritten as well.
RECURSIVE VisitChildrenIntoLists(_, _, _, _)
VisitChildrenIntoLists(path, st, replacements, keys) ==
    IF keys = {} THEN st
    ELSE LET key == CHOOSE k \in keys : TRUE
             value == st.attribute[key]
             sub == replace(NewPath(path, key), value.m, replacements, st.result)
             inList(v) == IF v.t = "M"
                          THEN M(replace(NewPath(path, key), v.m, replacements,
                                         st.result).attribute)
                          ELSE v
             done == IF value.t = "M"
                     THEN [attribute |-> [st.attribute EXCEPT ![key] = M(sub.attribute)],
                           result |-> sub.result]
                     ELSE IF value.t = "L"
                     THEN [attribute |-> [st.attribute EXCEPT
                                             ![key] = L([i \in DOMAIN value.l |-> inList(value.l[i])])],
                           result |-> st.result]
                     ELSE st
         IN VisitChildrenIntoLists(path, done, replacements, keys \ {key})

\* The loop of lines 253-262 over the entries not yet visited (`keys`).  The
\* HashMap's iteration order is unspecified; the children are disjoint and the
\* counters are sums, so every order gives the same state.
VisitChildren(path, st, replacements, keys) ==
    IF keys = {} THEN st
    ELSE LET key == CHOOSE k \in keys : TRUE
             value == st.attribute[key]
             sub == replace(NewPath(path, key), value.m, replacements, st.result)
             done == IF value.t = "M"
                     THEN [attribute |-> [st.attribute EXCEPT ![key] = M(sub.attribute)],
                           result |-> sub.result]
                     ELSE st
         IN VisitChildren(path, done, replacements, keys \ {key})

\* fn replace (lines 236-263): the map and the counters after the call.
replace(path, attribute, replacements, result) ==
    LET st == ApplyRules(path, [attribute |-> attribute, result |-> result], replacements, 1)
    IN VisitChildren(path, st, replacements, DOMAIN st.attribute)

(***************************************************************************)
(* Inputs of the rewrite specification                                     *)
(***************************************************************************)
NameA == <<"a">>

NameB == <<"b">>

NameC == <<"c">>

\* Longest rule list drawn.
MaxRules == 2

\* Maps over subsets of {a, b}, the value of each key drawn from its own set.
MapsOver(va, vb) ==
    {EmptyMap} \cup {(NameA :> x) : x \in va} \cup {(NameB :> y) : y \in vb}
    \cup {(NameA :> x) @@ (NameB :> y) : x \in va, y \in vb}

RwLeafMaps == MapsOver({S(1)}, {S(2)})

RwMidMaps == MapsOver({S(1)} \cup {M(m) : m \in RwLeafMaps}, {S(2)})

RwRecords ==
    MapsOver({S(1), L(<<M(NameA :> S(1))>>)} \cup {M(m) : m \in RwMidMaps},
             {S(2), M(NameA :> S(1))})

RwRules ==
    {Replace(root, prefix, ft[1], ft[2]) :
        root \in BOOLEAN, prefix \in {<<>>, NameA},
        ft \in {<<NameA, NameB>>, <<NameB, NameC>>, <<NameB, NameA>>, <<NameA, NameA>>}}

RwRuleLists == UNION {[1..n -> RwRules] : n \in 0..MaxRules}

(***************************************************************************)
(* The remote table (DynamoDB, reached through client.scan / put_item)     *)
(***************************************************************************)
\* Number of primary keys of the table; scalar values are drawn from 1..NKeys.
NKeys == 2

\* Modifications other writers make during one run.
MaxOtherWrites == 1

Keys == 1..NKeys

\* The table's primary-key attribute: an ordinary field to the tool.
KeyAttr == <<"k">>

\* Option<HashMap<..>>: a stored item, or none.
Some(row) == [present |-> TRUE, row |-> row]

None == [present |-> FALSE, row |-> EmptyMap]

\* The items with keys lo..hi that exist, in key order.
RECURSIVE Segment(_, _, _)
Segment(tbl, lo, hi) ==
    IF lo > hi THEN <<>>
    ELSE (IF tbl[lo].present THEN <<tbl[lo].row>> ELSE <<>>) \o Segment(tbl, lo + 1, hi)

\* What client.scan().set_exclusive_start_key(token).send() can answer: an
\* error, or a page of the items after the token with the key the page ended
\* at (0: no last_evaluated_key).  A page that reaches the end of the table
\* may still carry a key; the page after it is empty.
RemoteScan(tbl, token) ==
    {[err |-> TRUE, items |-> <<>>, lek |-> 0]}
    \cup {[err |-> FALSE, items |-> Segment(tbl, token + 1, e), lek |-> e] :
            e \in {x \in Keys : x > token}}
    \cup {[err |-> FALSE, items |-> Segment(tbl, token + 1, NKeys), lek |-> 0]}

\* The condition expression of a put request evaluated on the stored item:
\* the AND of its comparisons, each false on a missing attribute or item.
CondHolds(req, stored) ==
    \A j \in 1..Len(req.expr) :
        LET key == req.names[req.expr[j].name]
            value == req.values[req.expr[j].value]
        IN /\ stored.present
           /\ key \in DOMAIN stored.row
           /\ stored.row[key] = value

\* The item must carry the table's key as a scalar.
ValidItem(item) ==
    /\ KeyAttr \in DOMAIN item
    /\ item[KeyAttr].t = "S"
    /\ item[KeyAttr].v \in Keys

\* What req.send() can answer and the table it leaves: the request may fail
\* before it is evaluated (transport, validation); evaluated, it replaces the
\* item with the request's key if the condition holds (the answer may still be
\* lost) and is rejected with ConditionalCheckFailedException otherwise.
RemotePut(tbl, req) ==
    {[outcome |-> "transport", table |-> tbl]}
    \cup (IF ~ValidItem(req.item)
          THEN {[outcome |-> "validation", table |-> tbl]}
          ELSE LET target == req.item[KeyAttr].v
                   applied == [tbl EXCEPT ![target] = Some(req.item)]
               IN IF req.conditional => CondHolds(req, tbl[target])
                  THEN {[outcome |-> "ok", table |-> applied],
                        [outcome |-> "lost_response", table |-> applied]}
                  ELSE {[outcome |-> "conflict", table |-> tbl]})

\* The stored item a put request is evaluated against.
Target(tbl, req) == IF ValidItem(req.item) THEN tbl[req.item[KeyAttr].v] ELSE None

(***************************************************************************)
(* put (the conditional writer)                                            *)
(***************************************************************************)
\* The orders in which a HashMap with these keys can be iterated.
Orders(keys) ==
    {o \in [1..Cardinality(keys) -> keys] : \A i, j \in DOMAIN o : o[i] = o[j] => i = j}

\* Mutant of NamePlaceholder: every field gets the placeholder #a0.
NamePlaceholderFixed(i) == <<"#a", 0>>

\* format!("#a{}", i) and format!(":a{}", i)
NamePlaceholder(i) == <<"#a", i>>

ValuePlaceholder(i) == <<":a", i>>

\* Mutant of PutRequest: only the first comparison reaches the condition.
PutRequestFirstOnly(old, item, order) ==
    LET n == IF Len(order) > 0 THEN 1 ELSE 0
    IN [item |-> item,
        expr |-> [j \in 1..n |-> [name |-> NamePlaceholder(j - 1),
                                  value |-> ValuePlaceholder(j - 1)]],
        names |-> [ph \in {NamePlaceholder(i) : i \in 0..(n - 1)} |-> order[ph[2] + 1]],
        values |-> [ph \in {ValuePlaceholder(i) : i \in 0..(n - 1)} |-> old[order[ph[2] + 1]]],
        conditional |-> n > 0]

\* Mutant of PutRequest: the condition expression is never set.
PutRequestUnconditional(old, item, order) ==
    [item |-> item,
     expr |-> <<>>,
     names |-> [ph \in {} |-> ph],
     values |-> [ph \in {} |-> ph],
     conditional |-> FALSE]

\* Lines 322-334: the request put builds for (old, item), `order` being the
\* iteration order of old.  expr is joined with " AND "; the condition is set
\* only if expr is not empty.
PutRequest(old, item, order) ==
    LET n == Len(order)
    IN [item |-> item,
        expr |-> [j \in 1..n |-> [name |-> NamePlaceholder(j - 1),
                                  value |-> ValuePlaceholder(j - 1)]],
        names |-> [ph \in {NamePlaceholder(i) : i \in 0..(n - 1)} |-> order[ph[2] + 1]],
        values |-> [ph \in {ValuePlaceholder(i) : i \in 0..(n - 1)} |-> old[order[ph[2] + 1]]],
        conditional |-> n > 0]

\* Lines 209-213: e.into() is Error::ConditionalCheckFailedException.
IsConditionalCheckFailed(outcome) == outcome = "conflict"

(***************************************************************************)
(* main                                                                    *)
(***************************************************************************)
White == {" ", "\t", "\n", "\r"}

RECURSIVE TrimStart(_)
TrimStart(s) == IF s # <<>> /\ Head(s) \in White THEN TrimStart(Tail(s)) ELSE s

RECURSIVE TrimEnd(_)
TrimEnd(s) ==
    IF s # <<>> /\ s[Len(s)] \in White THEN TrimEnd(SubSeq(s, 1, Len(s) - 1)) ELSE s

\* str::trim
Trim(s) == TrimEnd(TrimStart(s))

\* Mutant of Confirmed: any answer that starts with "Y" confirms.
ConfirmedPrefix(line) == Trim(line) # <<>> /\ Head(Trim(line)) = "Y"

\* Line 200: line.trim() != "Y" cancels.
Confirmed(line) == Trim(line) = <<"Y">>

\* Mutant of RewriteRows: a row is queued when the replacement count grew.
RECURSIVE RewriteRowsByCount(_, _, _, _)
RewriteRowsByCount(rows, replacements, i, st) ==
    IF i > Len(rows) THEN st
    ELSE LET old == rows[i]
             out == replace(<<>>, old, replacements, st.result)
         IN RewriteRowsByCount(rows, replacements, i + 1,
                               [result |-> out.result,
                                dirty |-> IF out.result.replacements > st.result.replacements
                                          THEN Append(st.dirty,
                                                      [old |-> old, new |-> out.attribute])
                                          ELSE st.dirty])

\* Lines 169-177: the rows rewritten in order, one result for all of them,
\* each changed row queued with its original.
RECURSIVE RewriteRows(_, _, _, _)
RewriteRows(rows, replacements, i, st) ==
    IF i > Len(rows) THEN st
    ELSE LET old == rows[i]
             out == replace(<<>>, old, replacements, st.result)
         IN RewriteRows(rows, replacements, i + 1,
                        [result |-> out.result,
                         dirty |-> IF old # out.attribute
                                   THEN Append(st.dirty, [old |-> old, new |-> out.attribute])
                                   ELSE st.dirty])

\* Lines read from stdin by read_line: with and without the newline, padded,
\* other answers, the empty line and end of input (nothing read).
StdinLines ==
    {<<"Y", "\n">>, <<" ", "Y", "\r", "\n">>, <<"y", "\n">>, <<"y", "e", "s", "\n">>,
     <<"Y", "Y", "\n">>, <<"Y", " ", "Y", "\n">>, <<"N", "\n">>, <<"\n">>, <<>>}

\* read_line returns the line, or an error that .expect turns into a panic.
StdinReads == {[ok |-> TRUE, line |-> l] : l \in StdinLines} \cup {[ok |-> FALSE, line |-> <<>>]}

\* The items a table starts with, per key.
InitRows(key) ==
    {(KeyAttr :> S(key)) @@ (NameA :> S(1)),
     (KeyAttr :> S(key)) @@ (NameB :> M(NameA :> S(1)))}

\* The --replace options of a run: none, a>b, k>c (renames the key), a>k
\* (overwrites the key), a>a, and b.a>b.b (inside a nested map).
RunRuleLists ==
    {<<>>,
     <<RootRule(NameA, NameB)>>,
     <<RootRule(KeyAttr, NameC)>>,
     <<RootRule(NameA, KeyAttr)>>,
     <<RootRule(NameA, NameA)>>,
     <<Replace(TRUE, NameB, NameA, NameB)>>}

\* A scalar other than the one given.
OtherScalar(value) == IF value = S(1) THEN S(2) ELSE S(1)

\* What another writer can turn a stored item into: delete it, change the
\* value of a field, remove a field, add a new field, or create the item.
OtherWrite(stored, key) ==
    IF stored.present
    THEN {None}
         \cup {Some([stored.row EXCEPT ![f] = OtherScalar(stored.row[f])]) :
                 f \in DOMAIN stored.row \ {KeyAttr}}
         \cup {Some(MapRemove(stored.row, f)) : f \in DOMAIN stored.row \ {KeyAttr}}
         \cup {Some(MapInsert(stored.row, f, S(1))) : f \in {NameA, NameB} \ DOMAIN stored.row}
    ELSE {Some((KeyAttr :> S(key)) @@ (NameA :> S(1)))}

VARIABLES
    table,              \* the remote table: key -> stored item or none
    replaceOpt,         \* options.replace
    pc,                 \* where main is: scan, rewrite, confirm, put, put_wait, done
    last_evaluated_key, \* scan's continuation token (0: None)
    ret,                \* scan's accumulator, then main's rows
    result,             \* main's ReplaceResult
    dirty,              \* main's dirty: <<[old, new]>>
    count,              \* main's count of successful puts
    next,               \* position of the put loop in dirty
    inflight,           \* put requests sent and not yet answered
    exit,               \* running, ok (return from main) or err (process::exit(1), panic)
    report,             \* the last message printed and the count it carries
    stdin,              \* what read_line returned (unread before the prompt)
    scanLog,            \* history: every scan request and its answer
    putLog,             \* history: every put sent and every answer received, with the
                        \* item the request addresses before and after it
    otherWrites,        \* modifications made by other writers so far
    rwRow,              \* rewrite specification: the record drawn
    rwRules,            \* rewrite specification: the rule list drawn
    rwStage,            \* rewrite specification: passes made (0, 1, 2)
    rwOut1,             \* rewrite specification: the first pass's [attribute, result]
    rwOut2,             \* rewrite specification: the second pass's [attribute, result]
    rwDirty,            \* rewrite specification: main's dirty for the one record
    rwReq,              \* rewrite specification: the request put builds for the record
    fpKeys,             \* firing specification: the keys leading to the innermost map
    fpRule,             \* firing specification: the rule drawn
    fpStage,            \* firing specification: 0 before replace, 1 after
    fpOut,              \* firing specification: the record replace left
    psInput,            \* parsing specification: the directive drawn
    psStage,            \* parsing specification: 0 before from_str, 1 after
    psOut,              \* parsing specification: from_str's Result
    trTable,            \* two-run specification: the remote table
    trRules,            \* two-run specification: each run's rule list
    trPuts              \* two-run specification: each run's put (queued, outcome)

runVars == <<table, replaceOpt, pc, last_evaluated_key, ret, result, dirty, count, next,
             inflight, exit, report, stdin, scanLog, putLog, otherWrites>>

rwVars == <<rwRow, rwRules, rwStage, rwOut1, rwOut2, rwDirty, rwReq>>

fpVars == <<fpKeys, fpRule, fpStage, fpOut>>

psVars == <<psInput, psStage, psOut>>

trVars == <<trTable, trRules, trPuts>>

vars == <<runVars, rwVars, fpVars, psVars, trVars>>

RwNone == [attribute |-> EmptyMap, result |-> ReplaceResultDefault]

Unread == [ok |-> FALSE, line |-> <<"unread">>]

NoReport == [kind |-> "none", count |-> 0]

RunInit ==
    /\ table \in [Keys -> UNION {{Some(r) : r \in InitRows(key)} : key \in Keys}]
    /\ \A key \in Keys : table[key].row[KeyAttr] = S(key)
    /\ replaceOpt \in RunRuleLists
    /\ pc = "scan"
    /\ last_evaluated_key = 0
    /\ ret = <<>>
    /\ result = ReplaceResultDefault
    /\ dirty = <<>>
    /\ count = 0
    /\ next = 1
    /\ inflight = <<>>
    /\ exit = "running"
    /\ report = NoReport
    /\ stdin = Unread
    /\ scanLog = <<>>
    /\ putLog = <<>>
    /\ otherWrites = 0

\* Line 300: the token scan passes to scan_inner.
ScanToken == last_evaluated_key

\* Line 306: last_evaluated_key.is_none() ends the loop.
ScanDone(lek) == lek = 0

\* Mutant of Accumulate: the page replaces what was accumulated.
AccumulateLastPage(acc, items) == items

\* Line 303: ret.append(&mut items).
Accumulate(acc, items) == acc \o items

\* Mutant of AfterScanError: the rows scanned so far are kept and main goes on.
IgnoreScanError == "rewrite"

\* Lines 161-164: a scan error is printed and the process exits with 1.
AfterScanError == "done"

\* One iteration of scan's loop (lines 299-311) with its scan_inner call; an
\* error returns from scan and main exits (lines 161-164).
ScanPage ==
    /\ pc = "scan"
    /\ \E resp \in RemoteScan(table, ScanToken) :
          /\ scanLog' = Append(scanLog, [token |-> ScanToken, resp |-> resp])
          /\ IF resp.err
             THEN /\ pc' = AfterScanError
                  /\ exit' = IF AfterScanError = "done" THEN "err" ELSE exit
                  /\ report' = [kind |-> "scan_error", count |-> 0]
                  /\ UNCHANGED <<ret, last_evaluated_key>>
             ELSE /\ ret' = Accumulate(ret, resp.items)
                  /\ last_evaluated_key' = resp.lek
                  /\ pc' = IF ScanDone(resp.lek) THEN "rewrite" ELSE "scan"
                  /\ UNCHANGED <<exit, report>>
    /\ UNCHANGED <<table, replaceOpt, result, dirty, count, next, inflight, stdin,
                   putLog, otherWrites>>
    /\ UNCHANGED <<rwVars, fpVars, psVars, trVars>>

\* Lines 167-189: rewrite every row, return if nothing was replaced, else
\* print the summary and the prompt.
Rewrite ==
    /\ pc = "rewrite"
    /\ LET st == RewriteRows(ret, replaceOpt, 1, [result |-> ReplaceResultDefault, dirty |-> <<>>])
       IN /\ result' = st.result
          /\ dirty' = st.dirty
          /\ IF st.result.replacements = 0
             THEN /\ pc' = "done"
                  /\ exit' = "ok"
                  /\ report' = [kind |-> "no_replacements", count |-> 0]
             ELSE /\ pc' = "confirm"
                  /\ report' = [kind |-> "prompt", count |-> 0]
                  /\ UNCHANGED exit
    /\ UNCHANGED <<table, replaceOpt, last_evaluated_key, ret, count, next, inflight, stdin,
                   scanLog, putLog, otherWrites>>
    /\ UNCHANGED <<rwVars, fpVars, psVars, trVars>>

\* Mutant of CancelExit: main returns instead of exiting with 1.
CancelReturns == "ok"

\* Line 202: process::exit(1) after "canceled.".
CancelExit == "err"

\* Lines 193-205: read one line; anything but "Y" after trimming cancels.
Confirm ==
    /\ pc = "confirm"
    /\ \E input \in StdinReads :
          /\ stdin' = input
          /\ IF input.ok /\ Confirmed(input.line)
             THEN /\ pc' = "put"
                  /\ count' = 0
                  /\ UNCHANGED <<exit, report>>
             ELSE /\ pc' = "done"
                  /\ exit' = IF input.ok THEN CancelExit ELSE "err"
                  /\ report' = [kind |-> IF input.ok THEN "canceled" ELSE "panic", count |-> 0]
                  /\ UNCHANGED count
    /\ UNCHANGED <<table, replaceOpt, last_evaluated_key, ret, result, dirty, next, inflight,
                   scanLog, putLog, otherWrites>>
    /\ UNCHANGED <<rwVars, fpVars, psVars, trVars>>

\* Mutant of MayIssuePut: the put future is not awaited before the next call.
MayIssuePutNoAwait == pc \in {"put", "put_wait"}

\* Line 207: the loop calls put only when no put is awaited.
MayIssuePut == pc = "put"

\* Line 223.
CountAfterSuccess(c) == c + 1

\* Mutant of AfterFailedPut: the loop goes on to the next entry.
ContinueAfterFailedPut == "put"

\* Line 221: process::exit(1) ends the loop at the first failed put.
AfterFailedPut == "done"

\* Lines 206-207 and 322-335: the next dirty entry's request is built and sent.
PutSend ==
    /\ MayIssuePut
    /\ next <= Len(dirty)
    /\ \E order \in Orders(DOMAIN dirty[next].old) :
          inflight' = Append(inflight, [i |-> next,
                                        req |-> PutRequest(dirty[next].old, dirty[next].new, order)])
    /\ putLog' = Append(putLog, [ev |-> "send", i |-> next, outcome |-> "sent",
                                 stored |-> None, after |-> None])
    /\ pc' = "put_wait"
    /\ UNCHANGED <<table, replaceOpt, last_evaluated_key, ret, result, dirty, count, next,
                   exit, report, stdin, scanLog, otherWrites>>
    /\ UNCHANGED <<rwVars, fpVars, psVars, trVars>>

\* The table answers the awaited put and main handles the answer (lines 207-224).
PutRecv ==
    /\ pc = "put_wait"
    /\ inflight # <<>>
    /\ LET cur == Head(inflight)
       IN \E ans \in RemotePut(table, cur.req) :
             /\ table' = ans.table
             /\ putLog' = Append(putLog, [ev |-> "recv", i |-> cur.i, outcome |-> ans.outcome,
                                          stored |-> Target(table, cur.req),
                                          after |-> Target(ans.table, cur.req)])
             /\ IF ans.outcome = "ok"
                THEN /\ count' = CountAfterSuccess(count)
                     /\ next' = next + 1
                     /\ pc' = "put"
                     /\ UNCHANGED <<exit, report>>
                ELSE /\ report' = [kind |-> IF IsConditionalCheckFailed(ans.outcome)
                                            THEN "conflict" ELSE "put_error",
                                   count |-> count]
                     /\ pc' = AfterFailedPut
                     /\ exit' = IF AfterFailedPut = "done" THEN "err" ELSE exit
                     /\ next' = IF AfterFailedPut = "done" THEN next ELSE next + 1
                     /\ UNCHANGED count
    /\ inflight' = Tail(inflight)
    /\ UNCHANGED <<replaceOpt, last_evaluated_key, ret, result, dirty, stdin, scanLog,
                   otherWrites>>
    /\ UNCHANGED <<rwVars, fpVars, psVars, trVars>>

\* Line 227: every queued put succeeded.
Finish ==
    /\ pc = "put"
    /\ next > Len(dirty)
    /\ pc' = "done"
    /\ exit' = "ok"
    /\ report' = [kind |-> "success", count |-> count]
    /\ UNCHANGED <<table, replaceOpt, last_evaluated_key, ret, result, dirty, count, next,
                   inflight, stdin, scanLog, putLog, otherWrites>>
    /\ UNCHANGED <<rwVars, fpVars, psVars, trVars>>

\* Another writer to the same table modifies one item while the run goes on.
OtherWriter ==
    /\ pc # "done"
    /\ otherWrites < MaxOtherWrites
    /\ \E key \in Keys :
          \E new \in OtherWrite(table[key], key) :
             /\ new # table[key]
             /\ table' = [table EXCEPT ![key] = new]
    /\ otherWrites' = otherWrites + 1
    /\ UNCHANGED <<replaceOpt, pc, last_evaluated_key, ret, result, dirty, count, next,
                   inflight, exit, report, stdin, scanLog, putLog>>
    /\ UNCHANGED <<rwVars, fpVars, psVars, trVars>>

\* The rewrite specification's variables, at rest during a run.
RwIdle ==
    /\ rwRow = EmptyMap
    /\ rwRules = <<>>
    /\ rwStage = 0
    /\ rwOut1 = RwNone
    /\ rwOut2 = RwNone
    /\ rwDirty = <<>>
    /\ rwReq = PutRequest(EmptyMap, EmptyMap, <<>>)

\* The firing specification's variables, at rest.
FpIdle ==
    /\ fpKeys = <<>>
    /\ fpRule = RootRule(NameA, NameA)
    /\ fpStage = 0
    /\ fpOut = EmptyMap

\* Result<Replace, ReplaceParseError>; `name` is the string InvalidAttribute carries.
Ok(replacement) == [ok |-> TRUE, value |-> replacement, err |-> "none", name |-> <<>>]

Err(e, name) ==
    [ok |-> FALSE, value |-> Replace(TRUE, <<>>, <<>>, <<>>), err |-> e, name |-> name]

\* The parsing specification's variables, at rest.
PsIdle ==
    /\ psInput = <<>>
    /\ psStage = 0
    /\ psOut = Err("none", <<>>)

\* A run of the two-run specification before its scan: nothing queued, no put made.
TrNoRun == [scanned |-> FALSE, dirty |-> <<>>, log |-> <<>>, stopped |-> FALSE]

\* The two-run specification's variables, at rest.
TrIdle ==
    /\ trTable = [key \in Keys |-> None]
    /\ trRules = <<<<>>, <<>>>>
    /\ trPuts = <<TrNoRun, TrNoRun>>

Init == RunInit /\ RwIdle /\ FpIdle /\ PsIdle /\ TrIdle

Next == ScanPage \/ Rewrite \/ Confirm \/ PutSend \/ PutRecv \/ Finish \/ OtherWriter

Spec == Init /\ [][Next]_vars

\* scan alone, beside other writers; every call of its loop returns.
ScanNext == ScanPage \/ OtherWriter

ScanSpec == Init /\ [][ScanNext]_vars /\ WF_vars(ScanPage)

(***************************************************************************)
(* Claims about a run (checked under Spec; C7 under ScanSpec)              *)
(***************************************************************************)
Recvs == {j \in DOMAIN putLog : putLog[j].ev = "recv"}

Sends == {j \in DOMAIN putLog : putLog[j].ev = "send"}

\* The stored item differs from the original in a field of the original.
Mismatch(stored, old) ==
    \E f \in DOMAIN old :
        \/ ~stored.present
        \/ f \notin DOMAIN stored.row
        \/ stored.row[f] # old[f]

\* The put was applied to the table.
Applied(e) == e.outcome \in {"ok", "lost_response"}

\* The table evaluated the request (it was not lost or rejected as invalid before).
Evaluated(e) == e.outcome \notin {"transport", "validation"}

\* C1 as claimed: a queued write-back is applied only if the stored record at
\* write time is identical to the record as it was scanned; any modification
\* in between (changed value, removed field, added field, deletion) is rejected.
C1_AppliedOnlyIfUnmodified ==
    \A j \in Recvs : Applied(putLog[j]) => putLog[j].stored = Some(dirty[putLog[j].i].old)

\* C2: when the table evaluates a put and the stored value of a field of the
\* original differs from the original value (or the field or the item is
\* missing), the put fails with the conditional-check outcome, the stored item
\* is left unchanged, and the run reports concurrent modification, not the
\* generic put error; a put that meets such an item is never applied.
C2_ConflictReported ==
    \A j \in Recvs :
        LET e == putLog[j]
        IN Mismatch(e.stored, dirty[e.i].old) =>
              /\ ~Applied(e)
              /\ e.after = e.stored
              /\ Evaluated(e) =>
                    /\ e.outcome = "conflict"
                    /\ report = [kind |-> "conflict", count |-> e.i - 1]
                    /\ exit = "err"

\* A value of the scanned item was changed (or a field removed) before its put.
C2_Witness ==
    \E j \in Recvs :
        LET e == putLog[j]
            old == dirty[e.i].old
        IN /\ e.stored.present
           /\ e.stored.row[KeyAttr] = old[KeyAttr]
           /\ Mismatch(e.stored, old)
           /\ e.outcome = "conflict"
           /\ report.kind = "conflict"

\* C3: when the put for dirty record k fails (conflict or any other error)
\* after the puts for 1..k-1 succeeded, the count reported is k-1, nothing is
\* sent for k+1..n, k is not sent again, and the run exits with an error.
C3_PartialFailure ==
    \A j \in Recvs :
        LET e == putLog[j]
        IN e.outcome # "ok" =>
              /\ j = Len(putLog)
              /\ inflight = <<>>
              /\ Cardinality({m \in Recvs : putLog[m].outcome = "ok"}) = e.i - 1
              /\ \A m \in 1..(e.i - 1) : \E r \in Recvs : putLog[r].i = m /\ putLog[r].outcome = "ok"
              /\ Cardinality({m \in Sends : putLog[m].i = e.i}) = 1
              /\ report.kind \in {"conflict", "put_error"}
              /\ report.count = e.i - 1
              /\ pc = "done"
              /\ exit = "err"

\* The second of two queued puts failed with an error that is not a conflict.
C3_Witness ==
    /\ Len(dirty) = 2
    /\ \E j \in Recvs : putLog[j].i = 2 /\ putLog[j].outcome = "transport"
    /\ report = [kind |-> "put_error", count |-> 1]

\* The pages scan received, in request order.
RECURSIVE ConcatPages(_, _)
ConcatPages(log, j) ==
    IF j > Len(log) THEN <<>>
    ELSE (IF log[j].resp.err THEN <<>> ELSE log[j].resp.items) \o ConcatPages(log, j + 1)

\* The scanned rows whose rewritten form differs, each with that form, in scan order.
RECURSIVE DirtyFrom(_, _)
DirtyFrom(rows, i) ==
    IF i > Len(rows) THEN <<>>
    ELSE LET new == replace(<<>>, rows[i], replaceOpt, ReplaceResultDefault).attribute
         IN (IF new # rows[i] THEN <<[old |-> rows[i], new |-> new]>> ELSE <<>>)
            \o DirtyFrom(rows, i + 1)

\* C4: puts are issued one at a time in the order of the dirty set, which is
\* the order in which the scan returned the records: the put for record k+1 is
\* sent only after the put for record k was answered with success, and never
\* are two puts in flight.
C4_SequentialInOrder ==
    /\ Len(inflight) <= 1
    /\ inflight # <<>> <=> (putLog # <<>> /\ putLog[Len(putLog)].ev = "send")
    /\ \A j \in Sends :
          /\ j % 2 = 1
          /\ putLog[j].i = (j + 1) \div 2
          /\ j > 1 => /\ putLog[j - 1].ev = "recv"
                      /\ putLog[j - 1].outcome = "ok"
                      /\ putLog[j - 1].i = putLog[j].i - 1
    /\ \A j \in Recvs : j > 1 /\ putLog[j - 1].ev = "send" /\ putLog[j - 1].i = putLog[j].i
    /\ inflight # <<>> => /\ inflight[1].i = putLog[Len(putLog)].i
                          /\ inflight[1].req.item = dirty[inflight[1].i].new
    /\ pc \in {"confirm", "put", "put_wait"} =>
          /\ ret = ConcatPages(scanLog, 1)
          /\ dirty = DirtyFrom(ret, 1)

\* The second dirty record's put is in flight, after the first was answered.
C4_Witness ==
    /\ Len(putLog) = 3
    /\ putLog[3].ev = "send"
    /\ putLog[3].i = 2
    /\ Len(inflight) = 1
    /\ Len(scanLog) >= 2

\* The line is "Y" with nothing but whitespace around it.
IsYPadded(l) ==
    \E i \in 1..Len(l) : l[i] = "Y" /\ \A j \in (1..Len(l)) \ {i} : l[j] \in White

\* C5: no put is issued before the confirmation was read, and puts are issued
\* only if the line read is "Y" (surrounding whitespace trimmed); after any
\* other input no put is issued and the run ends with an error exit.
C5_ConfirmationGate ==
    /\ (putLog # <<>> \/ inflight # <<>> \/ pc \in {"put", "put_wait"}) =>
          stdin.ok /\ IsYPadded(stdin.line)
    /\ stdin = Unread => pc \in {"scan", "rewrite", "confirm", "done"}
    /\ (stdin # Unread /\ ~(stdin.ok /\ IsYPadded(stdin.line))) =>
          /\ putLog = <<>>
          /\ inflight = <<>>
          /\ pc = "done"
          /\ exit = "err"

\* "y" was answered to the prompt of a run with records to write.
C5_Witness ==
    /\ stdin = [ok |-> TRUE, line |-> <<"y", "\n">>]
    /\ dirty # <<>>
    /\ putLog = <<>>
    /\ exit = "err"

\* The last scan request was answered with the last page.
ScanSucceeded ==
    /\ scanLog # <<>>
    /\ ~scanLog[Len(scanLog)].resp.err
    /\ scanLog[Len(scanLog)].resp.lek = 0

\* C6: every scan request is answered before the first put is issued, and a
\* failed page request (also after pages that succeeded) ends the run with an
\* error exit, with nothing rewritten, no prompt and no put.
C6_ScanBeforePuts ==
    /\ (putLog # <<>> \/ inflight # <<>>) => (pc # "scan" /\ ScanSucceeded)
    /\ \A j \in DOMAIN scanLog :
          scanLog[j].resp.err =>
              /\ j = Len(scanLog)
              /\ pc = "done"
              /\ exit = "err"
              /\ report.kind = "scan_error"
              /\ dirty = <<>>
              /\ result = ReplaceResultDefault
              /\ stdin = Unread
              /\ putLog = <<>>
              /\ inflight = <<>>

\* The second page request failed after a first page with a record to rewrite.
C6_Witness ==
    /\ Len(scanLog) = 2
    /\ scanLog[1].resp.items # <<>>
    /\ scanLog[2].resp.err
    /\ replaceOpt = <<RootRule(NameA, NameB)>>
    /\ exit = "err"

\* What holds of scan's requests and accumulator at every moment.
ScanLogOk ==
    /\ scanLog # <<>> => scanLog[1].token = 0
    /\ \A j \in 2..Len(scanLog) :
          /\ ~scanLog[j - 1].resp.err
          /\ scanLog[j - 1].resp.lek # 0
          /\ scanLog[j].token = scanLog[j - 1].resp.lek
    /\ pc = "scan" <=> (scanLog = <<>> \/ ( /\ ~scanLog[Len(scanLog)].resp.err
                                           /\ scanLog[Len(scanLog)].resp.lek # 0))
    /\ (scanLog # <<>> /\ ~scanLog[Len(scanLog)].resp.err) => ret = ConcatPages(scanLog, 1)
    /\ pc = "rewrite" <=> ScanSucceeded

\* C7: scan sends the first request without a token and each later one with
\* the token the page before returned; it stops at the first page without a
\* token (or the first error) and sends nothing after it; on success its
\* result is the pages concatenated in request order; and it terminates.
C7_ScanPagination == [](ScanLogOk) /\ <>(pc # "scan")

\* Scan ended after three requests, the pages before the last holding records.
C7_Witness ==
    /\ Len(scanLog) = 3
    /\ ScanSucceeded
    /\ pc = "rewrite"
    /\ Len(ret) = 2
    /\ scanLog[1].resp.items # <<>>
    /\ scanLog[2].resp.items # <<>>

\* C8: the run ends with a success exit in exactly two cases: the scan
\* succeeded and nothing was replaced (no prompt, no put), or the user
\* confirmed and every queued put succeeded (the count reported is the size
\* of the dirty set); every other end is an error exit.
C8_SuccessExit ==
    LET nothing == ScanSucceeded /\ result.replacements = 0
        allPut == /\ stdin.ok /\ IsYPadded(stdin.line)
                  /\ \A i \in 1..Len(dirty) :
                        \E j \in Recvs : putLog[j].i = i /\ putLog[j].outcome = "ok"
                  /\ \A j \in Recvs : putLog[j].outcome = "ok"
    IN /\ exit # "running" <=> pc = "done"
       /\ pc = "done" =>
             /\ exit = "ok" <=> (nothing \/ allPut)
             /\ (exit = "ok" /\ nothing) =>
                   /\ report.kind = "no_replacements"
                   /\ stdin = Unread
                   /\ putLog = <<>>
             /\ (exit = "ok" /\ ~nothing) =>
                   /\ report = [kind |-> "success", count |-> Len(dirty)]
                   /\ count = Len(dirty)
             /\ exit = "err" =>
                   report.kind \in {"scan_error", "canceled", "panic", "conflict", "put_error"}

\* Two queued puts succeeded and the run returned.
C8_Witness ==
    /\ exit = "ok"
    /\ Len(dirty) = 2
    /\ report = [kind |-> "success", count |-> 2]

\* main has rewritten the scanned rows.
Rewritten == report.kind \notin {"none", "scan_error"}

\* C19 as claimed: after the rewrite of all scanned records the replacement
\* count is non-zero exactly when the dirty set is non-empty.
C19_ReplacementsIffDirty ==
    Rewritten => (result.replacements # 0 <=> dirty # <<>>)

\* The rows of the scan that hold a top-level field `a`.
RowsWithA == {i \in 1..Len(ret) : NameA \in DOMAIN ret[i]}

\* C19 amended: after the rewrite of all scanned records a non-empty dirty
\* set implies a non-zero replacement count, and the run stops with "no
\* replacements" exactly when the count is zero; the converse fails: the rule
\* a>a counts one replacement for every row holding `a` and changes no row, so
\* the count is non-zero while the dirty set is empty.
C19_DirtyImpliesReplacements ==
    Rewritten =>
        /\ dirty # <<>> => result.replacements # 0
        /\ report.kind = "no_replacements" <=> result.replacements = 0
        /\ replaceOpt = <<RootRule(NameA, NameA)>> =>
              /\ result.replacements = Cardinality(RowsWithA)
              /\ dirty = <<>>

\* a>a on a table with an item holding `a`: the prompt is shown with a
\* non-zero replacement count and nothing to write.
C19_Witness ==
    /\ pc = "confirm"
    /\ report.kind = "prompt"
    /\ replaceOpt = <<RootRule(NameA, NameA)>>
    /\ result.replacements > 0
    /\ dirty = <<>>

(***************************************************************************)
(* The rewrite specification: a record rewritten once, then once more.     *)
(***************************************************************************)
\* The run's variables, at rest while records are rewritten.
RunIdle ==
    /\ table = [key \in Keys |-> None]
    /\ replaceOpt = <<>>
    /\ pc = "done"
    /\ last_evaluated_key = 0
    /\ ret = <<>>
    /\ result = ReplaceResultDefault
    /\ dirty = <<>>
    /\ count = 0
    /\ next = 1
    /\ inflight = <<>>
    /\ exit = "running"
    /\ report = NoReport
    /\ stdin = Unread
    /\ scanLog = <<>>
    /\ putLog = <<>>
    /\ otherWrites = 0

RwInit ==
    /\ rwRow \in RwRecords
    /\ rwRules \in RwRuleLists
    /\ rwStage = 0
    /\ rwOut1 = RwNone
    /\ rwOut2 = RwNone
    /\ rwDirty = <<>>
    /\ rwReq = PutRequest(EmptyMap, EmptyMap, <<>>)

\* main's loop (lines 169-177) over the one record, on a fresh result:
\* replace(String::new(), &mut row, &options.replace, &mut result), the dirty
\* list it leaves, and the request put(&client, &options.table, old, new)
\* builds for the pair (lines 322-334) under one of old's iteration orders.
FirstPass ==
    /\ rwStage = 0
    /\ rwOut1' = replace(<<>>, rwRow, rwRules, ReplaceResultDefault)
    /\ rwDirty' = RewriteRows(<<rwRow>>, rwRules, 1,
                              [result |-> ReplaceResultDefault, dirty |-> <<>>]).dirty
    /\ \E order \in Orders(DOMAIN rwRow) :
          rwReq' = PutRequest(rwRow, rwOut1'.attribute, order)
    /\ rwStage' = 1
    /\ UNCHANGED <<rwRow, rwRules, rwOut2>>
    /\ UNCHANGED <<runVars, fpVars, psVars, trVars>>

\* The same call on the record the first pass produced.
SecondPass ==
    /\ rwStage = 1
    /\ rwOut2' = replace(<<>>, rwOut1.attribute, rwRules, ReplaceResultDefault)
    /\ rwStage' = 2
    /\ UNCHANGED <<rwRow, rwRules, rwOut1, rwDirty, rwReq>>
    /\ UNCHANGED <<runVars, fpVars, psVars, trVars>>

RwNext == FirstPass \/ SecondPass

InitRewrite == RwInit /\ RunIdle /\ FpIdle /\ PsIdle /\ TrIdle

SpecRewrite == InitRewrite /\ [][RwNext]_vars

(***************************************************************************)
(* Claims about the rewrite engine (checked under SpecRewrite)             *)
(***************************************************************************)
\* The dotted paths of the maps of a record, as replace visits them.
RECURSIVE MapPaths(_, _)
MapPaths(path, attribute) ==
    {path} \cup UNION {MapPaths(NewPath(path, key), attribute[key].m) :
                          key \in {k \in DOMAIN attribute : attribute[k].t = "M"}}

\* No rule's `to` is the `from` of a rule (itself included) firing at the same map.
NoChainAt(path, replacements) ==
    \A i, j \in 1..Len(replacements) :
        (Fires(path, replacements[i]) /\ Fires(path, replacements[j]))
            => replacements[i].to # replacements[j].from

NoChain == \A path \in MapPaths(<<>>, rwOut1.attribute) : NoChainAt(path, rwRules)

\* C9: when no rule's `to` equals the `from` of a rule (itself included) that
\* fires at the same map, rewriting the rewritten record gives the same record
\* and the second application performs zero replacements.
C9_Idempotent ==
    (rwStage = 2 /\ NoChain)
        => /\ rwOut2.attribute = rwOut1.attribute
           /\ rwOut2.result.replacements = 0

\* A second pass after a first pass that renamed a top-level and a nested field.
C9_Witness ==
    /\ rwStage = 2
    /\ NoChain
    /\ rwOut1.result.replacements >= 2
    /\ rwOut1.attribute # rwRow
    /\ \E path \in MapPaths(<<>>, rwOut1.attribute) :
          path # <<>> /\ \E i \in 1..Len(rwRules) : Fires(path, rwRules[i])

\* The rule list [a>b, b>c] and a map holding `a` and no `b`.
ChainFirst ==
    /\ rwRules = <<RootRule(NameA, NameB), RootRule(NameB, NameC)>>
    /\ NameA \in DOMAIN rwRow
    /\ NameB \notin DOMAIN rwRow

\* The rule list [b>c, a>b] and a map holding `a` and no `b`.
ChainLast ==
    /\ rwRules = <<RootRule(NameB, NameC), RootRule(NameA, NameB)>>
    /\ NameA \in DOMAIN rwRow
    /\ NameB \notin DOMAIN rwRow

\* C10 as claimed: with [a>b, b>c] one pass over a map holding `a` (and no `b`)
\* applies only a>b, leaving the value under `b`; the second pass moves it to `c`.
C10_InsertedNotRescanned ==
    ChainFirst =>
        /\ rwStage >= 1 => /\ DOMAIN rwOut1.attribute = {NameB}
                           /\ rwOut1.attribute[NameB] = rwRow[NameA]
                           /\ rwOut1.result.replacements = 1
        /\ rwStage = 2 => /\ DOMAIN rwOut2.attribute = {NameC}
                          /\ rwOut2.attribute[NameC] = rwRow[NameA]

\* C10 amended: the rules run in list order, each on the map as the earlier
\* rules left it.  With [a>b, b>c] one pass applies both rules and leaves the
\* value under `c`; with [b>c, a>b] one pass applies only a>b and leaves the
\* value under `b`, and only a second pass applies b>c and moves it to `c`.
C10_RulesSeeEarlierInserts ==
    /\ (ChainFirst /\ rwStage >= 1) =>
          /\ DOMAIN rwOut1.attribute = {NameC}
          /\ rwOut1.attribute[NameC] = rwRow[NameA]
          /\ rwOut1.result = [replacements |-> 2, overwrites |-> 0]
    /\ (ChainFirst /\ rwStage = 2) =>
          /\ rwOut2.attribute = rwOut1.attribute
          /\ rwOut2.result.replacements = 0
    /\ (ChainLast /\ rwStage >= 1) =>
          /\ DOMAIN rwOut1.attribute = {NameB}
          /\ rwOut1.attribute[NameB] = rwRow[NameA]
          /\ rwOut1.result = [replacements |-> 1, overwrites |-> 0]
    /\ (ChainLast /\ rwStage = 2) =>
          /\ DOMAIN rwOut2.attribute = {NameC}
          /\ rwOut2.attribute[NameC] = rwRow[NameA]
          /\ rwOut2.result = [replacements |-> 1, overwrites |-> 0]

\* {a: 1} rewritten twice with [a>b, b>c]: the first pass already ends at {c: 1}.
C10_Witness ==
    /\ ChainFirst
    /\ rwStage = 2
    /\ rwRow = (NameA :> S(1))
    /\ rwOut1.attribute = (NameC :> S(1))


\* A root rule with an empty prefix: the directive `from>to` without a dot.
IsRootEmpty(replacement) == replacement.root /\ replacement.prefix = <<>>

\* The rule list without its root rules with an empty prefix.
WithoutRootEmpty(replacements) == SelectSeq(replacements, LAMBDA r : ~IsRootEmpty(r))

\* The dotted paths replace gives to the nested maps of a record.
NestedPaths(attribute) ==
    UNION {MapPaths(NewPath(<<>>, key), attribute[key].m) :
              key \in {k \in DOMAIN attribute : attribute[k].t = "M"}}

\* C11: a root rule with an empty prefix fires only at the top-level map: no
\* nested map of a record has the empty path, and the record replace returns
\* is the one obtained by running the whole rule list on the top-level map
\* and, on every nested map, the list without those rules.
C11_RootEmptyOnlyAtTop ==
    rwStage >= 1 =>
        /\ <<>> \notin NestedPaths(rwRow)
        /\ <<>> \notin NestedPaths(rwOut1.attribute)
        /\ LET top == ApplyRules(<<>>, [attribute |-> rwRow, result |-> ReplaceResultDefault],
                                 rwRules, 1)
           IN rwOut1 = VisitChildren(<<>>, top, WithoutRootEmpty(rwRules), DOMAIN top.attribute)

\* a>b on {a: {a: 1}}: the top-level `a` is renamed, the nested `a` is not.
C11_Witness ==
    /\ rwStage >= 1
    /\ rwRules = <<RootRule(NameA, NameB)>>
    /\ rwRow = (NameA :> M(NameA :> S(1)))
    /\ rwOut1.attribute = (NameB :> M(NameA :> S(1)))
    /\ rwOut1.result.replacements = 1


\* C17: the request put builds for an original with n fields carries the
\* whole rewritten record and, as its condition, the AND of exactly the n
\* checks #a{i} = :a{i}, i = 0..n-1, with pairwise distinct placeholders, each
\* field of the original and its value bound to exactly one pair; with n = 0
\* no condition is attached.
C17_PutCondition ==
    rwStage >= 1 =>
        LET n == Cardinality(DOMAIN rwRow)
        IN /\ rwReq.item = rwOut1.attribute
           /\ Len(rwReq.expr) = n
           /\ \A j \in 1..n : rwReq.expr[j] = [name |-> <<"#a", j - 1>>, value |-> <<":a", j - 1>>]
           /\ DOMAIN rwReq.names = {<<"#a", i>> : i \in 0..(n - 1)}
           /\ DOMAIN rwReq.values = {<<":a", i>> : i \in 0..(n - 1)}
           /\ Cardinality(DOMAIN rwReq.names) = n
           /\ Cardinality(DOMAIN rwReq.values) = n
           /\ \A f \in DOMAIN rwRow :
                 Cardinality({i \in 0..(n - 1) : /\ rwReq.names[<<"#a", i>>] = f
                                                 /\ rwReq.values[<<":a", i>>] = rwRow[f]}) = 1
           /\ rwReq.conditional <=> n > 0

\* The request for a changed record with two fields: two checks, #a0 and #a1.
C17_Witness ==
    /\ rwStage >= 1
    /\ Cardinality(DOMAIN rwRow) = 2
    /\ rwOut1.attribute # rwRow
    /\ rwReq.conditional
    /\ Len(rwReq.expr) = 2
    /\ rwReq.names[<<"#a", 0>>] # rwReq.names[<<"#a", 1>>]

\* The values of a record, at any depth, that are not maps.
RECURSIVE LeafValues(_)
LeafValues(attribute) ==
    {attribute[k] : k \in {x \in DOMAIN attribute : attribute[x].t # "M"}}
    \cup UNION {LeafValues(attribute[k].m) : k \in {x \in DOMAIN attribute : attribute[x].t = "M"}}

\* The injections from one set of keys to another.
Injections(from, to) == {g \in [from -> to] : \A x, y \in from : g[x] = g[y] => x = y}

\* Two maps with as many fields and, under some pairing of their keys, the same
\* values: equal scalars and lists, and maps that are again the same up to keys.
RECURSIVE SameUpToKeys(_, _)
SameUpToKeys(old, new) ==
    /\ Cardinality(DOMAIN old) = Cardinality(DOMAIN new)
    /\ \E g \in Injections(DOMAIN old, DOMAIN new) :
          \A f \in DOMAIN old :
              IF old[f].t = "M"
              THEN new[g[f]].t = "M" /\ SameUpToKeys(old[f].m, new[g[f]].m)
              ELSE new[g[f]] = old[f]

\* C20: the overwrite count never exceeds the replacement count; when the
\* rewrite of a record counts no overwrite, every map of the rewritten record
\* has as many fields as the map of the original it comes from and the same
\* values under possibly other keys; scalars and lists, maps held in lists
\* included, come out as they went in.
C20_CountsAndShape ==
    rwStage >= 1 =>
        /\ rwOut1.result.overwrites <= rwOut1.result.replacements
        /\ rwOut1.result.overwrites = 0 => SameUpToKeys(rwRow, rwOut1.attribute)
        /\ LeafValues(rwOut1.attribute) \subseteq LeafValues(rwRow)

\* *a>*b on {a: [{a: 1}], b: {a: 1}}: the top-level `a` is renamed over `b`
\* (one replacement, one overwrite) and the map inside the list keeps its `a`.
C20_Witness ==
    /\ rwStage >= 1
    /\ rwRules = <<Replace(FALSE, <<>>, NameA, NameB)>>
    /\ rwRow = (NameA :> L(<<M(NameA :> S(1))>>)) @@ (NameB :> M(NameA :> S(1)))
    /\ rwOut1.attribute = (NameB :> L(<<M(NameA :> S(1))>>))
    /\ rwOut1.result = [replacements |-> 1, overwrites |-> 1]

(***************************************************************************)
(* The firing specification: one rule against a map nested under a chain   *)
(* of keys.                                                                *)
(***************************************************************************)
NameD == <<"d">>

NameUser == <<"u", "s", "e", "r">>

NameXUser == <<"x">> \o NameUser

NameName == <<"n", "a", "m", "e">>

\* Deepest nesting of the innermost map.
MaxDepth == 3

FpSegments == {NameA, NameB, NameUser, NameXUser, NameName}

FpKeyLists == UNION {[1..n -> FpSegments] : n \in 0..MaxDepth}

FpPrefixes ==
    {<<>>, NameA, NameName, NameUser \o <<".">> \o NameName, NameA \o <<".">> \o NameB}

\* The rule renames `c` to `d`; no key of the chain is `c`.
FpRules == {Replace(root, prefix, NameC, NameD) : root \in BOOLEAN, prefix \in FpPrefixes}

\* The record in which `inner` lies under the keys i.. of the chain.
RECURSIVE Nest(_, _, _)
Nest(keys, i, inner) ==
    IF i > Len(keys) THEN inner ELSE (keys[i] :> M(Nest(keys, i + 1, inner)))

\* The map under the keys i.. of the chain.
RECURSIVE Innermost(_, _, _)
Innermost(keys, i, attribute) ==
    IF i > Len(keys) THEN attribute ELSE Innermost(keys, i + 1, attribute[keys[i]].m)

FpInit ==
    /\ fpKeys \in FpKeyLists
    /\ fpRule \in FpRules
    /\ fpStage = 0
    /\ fpOut = EmptyMap

\* The record: {c: 1} under the chain of keys.
FpBuild ==
    /\ fpStage = 0
    /\ fpOut' = Nest(fpKeys, 1, NameC :> S(1))
    /\ fpStage' = 1
    /\ UNCHANGED <<fpKeys, fpRule>>
    /\ UNCHANGED <<runVars, rwVars, psVars, trVars>>

\* replace(String::new(), &mut row, &[rule], &mut result)
FpReplace ==
    /\ fpStage = 1
    /\ fpOut' = replace(<<>>, fpOut, <<fpRule>>, ReplaceResultDefault).attribute
    /\ fpStage' = 2
    /\ UNCHANGED <<fpKeys, fpRule>>
    /\ UNCHANGED <<runVars, rwVars, psVars, trVars>>

FpNext == FpBuild \/ FpReplace

InitFires == FpInit /\ RunIdle /\ RwIdle /\ PsIdle /\ TrIdle

SpecFires == InitFires /\ [][FpNext]_vars

(***************************************************************************)
(* Claims about firing (checked under SpecFires)                           *)
(***************************************************************************)
\* The keys i.. of the chain joined with dots.
RECURSIVE JoinDots(_, _)
JoinDots(keys, i) ==
    IF i > Len(keys) THEN <<>>
    ELSE IF i = Len(keys) THEN keys[i]
    ELSE keys[i] \o <<".">> \o JoinDots(keys, i + 1)

\* The rule fired at the innermost map: its `c` is now `d`.
FpFired == DOMAIN Innermost(fpKeys, 1, fpOut) = {NameD}

\* The raw characters of p end with those of q.
RawSuffix(p, q) == \E n \in 0..Len(p) : SubSeq(p, n + 1, Len(p)) = q

UserName == NameUser \o <<".">> \o NameName

\* C12: at the map with dotted path p a root rule fires exactly when p is its
\* prefix; a suffix rule fires exactly when the characters of p end with its
\* prefix, so the suffix rule with prefix "user.name" fires at "user.name",
\* "a.user.name" and "xuser.name"; a suffix rule with an empty prefix fires
\* at every map.
C12_FiringCondition ==
    fpStage = 2 =>
        LET p == JoinDots(fpKeys, 1)
        IN /\ fpRule.root => (FpFired <=> p = fpRule.prefix)
           /\ ~fpRule.root => (FpFired <=> RawSuffix(p, fpRule.prefix))
           /\ (~fpRule.root /\ fpRule.prefix = <<>>) => FpFired
           /\ (~fpRule.root /\ fpRule.prefix = UserName
                /\ fpKeys \in {<<NameUser, NameName>>, <<NameA, NameUser, NameName>>,
                                <<NameXUser, NameName>>}) => FpFired

\* The suffix rule with prefix "user.name" has fired at the map "xuser.name".
C12_Witness ==
    /\ fpStage = 2
    /\ fpRule = Replace(FALSE, UserName, NameC, NameD)
    /\ fpKeys = <<NameXUser, NameName>>
    /\ fpOut = (NameXUser :> M(NameName :> M(NameD :> S(1))))


(***************************************************************************)
(* Claims about the rewrite engine, continued (checked under SpecRewrite)  *)
(***************************************************************************)
\* The one rule of the list is a root rule and `m` is the map it fires at.
SingleRootRuleAt(m) ==
    /\ Len(rwRules) = 1
    /\ rwRules[1].root
    /\ \/ rwRules[1].prefix = <<>> /\ m = rwRow
       \/ /\ rwRules[1].prefix = NameA
          /\ NameA \in DOMAIN rwRow
          /\ rwRow[NameA] = M(m)

\* The map the first pass left where the one root rule fires.
OutAtRule == IF rwRules[1].prefix = <<>> THEN rwOut1.attribute ELSE rwOut1.attribute[NameA].m

\* C13: when a rule fires at a map holding `from`, the value is removed from
\* `from` and stored under `to`, the other fields stay, the replacement count
\* grows by one, and the overwrite count grows by one exactly when the map
\* without `from` already had a field `to`.
C13_RenameAndCount ==
    \A m \in {rwRow} \cup {rwRow[k].m : k \in {x \in DOMAIN rwRow : rwRow[x].t = "M"}} :
        (rwStage >= 1 /\ SingleRootRuleAt(m) /\ rwRules[1].from \in DOMAIN m) =>
            LET from == rwRules[1].from
                to == rwRules[1].to
                rest == DOMAIN m \ {from}
            IN /\ DOMAIN OutAtRule = rest \cup {to}
               /\ OutAtRule[to] = m[from]
               /\ \A x \in rest \ {to} : OutAtRule[x] = m[x]
               /\ rwOut1.result.replacements = 1
               /\ rwOut1.result.overwrites = (IF to \in rest THEN 1 ELSE 0)

\* a>b on {a: 1, b: 2} gives {b: 1} with one replacement and one overwrite.
C13_Witness ==
    /\ rwStage >= 1
    /\ rwRules = <<RootRule(NameA, NameB)>>
    /\ rwRow = (NameA :> S(1)) @@ (NameB :> S(2))
    /\ rwOut1 = [attribute |-> (NameB :> S(1)),
                 result |-> [replacements |-> 1, overwrites |-> 1]]


\* The maps of a record with the dotted paths replace gives them.
RECURSIVE MapsAt(_, _)
MapsAt(path, attribute) ==
    {<<path, attribute>>}
    \cup UNION {MapsAt(NewPath(path, key), attribute[key].m) :
                   key \in {k \in DOMAIN attribute : attribute[k].t = "M"}}

\* No rule's `from` is a field of a map of the record at which the rule fires.
NoRuleApplies ==
    \A pm \in MapsAt(<<>>, rwRow) : \A i \in 1..Len(rwRules) :
        Fires(pm[1], rwRules[i]) => rwRules[i].from \notin DOMAIN pm[2]

\* C14: a record in which no rule's `from` is present at a map where the rule
\* fires comes back unchanged with both counters unchanged; the record is
\* queued as dirty exactly when its rewritten form differs from the original,
\* and the entry pairs the unmodified original with the rewritten record.
C14_NoOpAndDirty ==
    rwStage >= 1 =>
        /\ NoRuleApplies => rwOut1 = [attribute |-> rwRow, result |-> ReplaceResultDefault]
        /\ rwDirty = (IF rwOut1.attribute # rwRow
                      THEN <<[old |-> rwRow, new |-> rwOut1.attribute]>>
                      ELSE <<>>)

\* b>c on {a: {b: 2}}: the rule fires at the top-level map only, which has no
\* `b`; the record is unchanged and not queued.
C14_Witness ==
    /\ rwStage >= 1
    /\ rwRules = <<RootRule(NameB, NameC)>>
    /\ rwRow = (NameA :> M(NameB :> S(2)))
    /\ NoRuleApplies
    /\ rwOut1 = [attribute |-> rwRow, result |-> ReplaceResultDefault]
    /\ rwDirty = <<>>


(***************************************************************************)
(* Replace::from_str (the rule parser)                                     *)
(***************************************************************************)
StartsWith(s, p) == Len(p) <= Len(s) /\ SubSeq(s, 1, Len(p)) = p

\* str::contains(char)
Contains(s, c) == \E i \in 1..Len(s) : s[i] = c

\* Position of the first c in s (0: none).
IndexOf(s, c) ==
    IF Contains(s, c)
    THEN CHOOSE i \in 1..Len(s) : s[i] = c /\ \A j \in 1..(i - 1) : s[j] # c
    ELSE 0

\* Position of the last c in s (0: none).
LastIndexOf(s, c) ==
    IF Contains(s, c)
    THEN CHOOSE i \in 1..Len(s) : s[i] = c /\ \A j \in (i + 1)..Len(s) : s[j] # c
    ELSE 0

\* str::split_once(char): the parts around the first c.
SplitOnce(s, c) ==
    LET i == IndexOf(s, c)
    IN IF i = 0 THEN [found |-> FALSE, before |-> <<>>, after |-> <<>>]
       ELSE [found |-> TRUE, before |-> SubSeq(s, 1, i - 1), after |-> SubSeq(s, i + 1, Len(s))]

\* str::strip_prefix and str::strip_suffix: Option<&str>.
StripPrefix(s, p) ==
    IF StartsWith(s, p) THEN [found |-> TRUE, rest |-> SubSeq(s, Len(p) + 1, Len(s))]
    ELSE [found |-> FALSE, rest |-> <<>>]

StripSuffix(s, p) ==
    IF EndsWith(s, p) THEN [found |-> TRUE, rest |-> SubSeq(s, 1, Len(s) - Len(p))]
    ELSE [found |-> FALSE, rest |-> <<>>]

\* before.split('.').last().unwrap(): what follows the last dot.
LastSegment(s) == SubSeq(s, LastIndexOf(s, ".") + 1, Len(s))

\* The characters of the class [a-zA-Z0-9_\-.].
NameChars ==
    {"a", "b", "c", "d", "e", "f", "g", "h", "i", "j", "k", "l", "m", "n", "o", "p", "q",
     "r", "s", "t", "u", "v", "w", "x", "y", "z",
     "A", "B", "C", "D", "E", "F", "G", "H", "I", "J", "K", "L", "M", "N", "O", "P", "Q",
     "R", "S", "T", "U", "V", "W", "X", "Y", "Z",
     "0", "1", "2", "3", "4", "5", "6", "7", "8", "9", "_", "-", "."}

\* NAME_REGEX.find(name): the leftmost longest run of class characters, as the
\* byte offsets [start, end) of the match.
RegexFind(name) ==
    LET hits == {i \in 1..Len(name) : name[i] \in NameChars}
    IN IF hits = {} THEN [found |-> FALSE, start |-> 0, end |-> 0]
       ELSE LET b == CHOOSE i \in hits : \A j \in hits : i <= j
                e == CHOOSE i \in b..Len(name) :
                        /\ \A j \in b..i : name[j] \in NameChars
                        /\ (i = Len(name) \/ name[i + 1] \notin NameChars)
            IN [found |-> TRUE, start |-> b - 1, end |-> e]

\* validate_attribute_name (lines 79-93): Ok(()) or not.
validate_attribute_name(name) ==
    LET m == RegexFind(name)
    IN m.found /\ m.start = 0 /\ m.end = Len(name)

\* Replace::from_str (lines 65-125).
from_str(s) ==
    LET sp == SplitOnce(s, ">")
        starBefore == StartsWith(sp.before, <<"*">>)
        starAfter == StartsWith(sp.after, <<"*">>)
        before == IF starBefore THEN Tail(sp.before) ELSE sp.before
        after == IF starBefore /\ starAfter THEN Tail(sp.after) ELSE sp.after
        root == ~starBefore
    IN IF ~sp.found THEN Err("MissingArrow", <<>>)
       ELSE IF starBefore /\ ~starAfter THEN Err("Unsupported", <<>>)
       ELSE IF ~validate_attribute_name(before) THEN Err("InvalidAttribute", before)
       ELSE IF ~validate_attribute_name(after) THEN Err("InvalidAttribute", after)
       ELSE IF Contains(before, ".")
       THEN LET from == LastSegment(before)
                prefix == StripSuffix(before, <<".">> \o from).rest
                to == StripPrefix(after, prefix \o <<".">>)
            IN IF to.found THEN Ok(Replace(root, prefix, from, to.rest))
               ELSE Err("Unsupported", <<>>)
       ELSE IF Contains(after, ".") THEN Err("Unsupported", <<>>)
       ELSE Ok(Replace(root, <<>>, before, after))

(***************************************************************************)
(* The parsing specification: one directive parsed.                        *)
(***************************************************************************)
\* Longest text before the arrow and after it.
MaxBefore == 3

MaxAfter == 5

\* Two name characters, the separator and the wildcard mark (not of the class).
PsChars == {"a", "b", ".", "*"}

PsStrings(n) == UNION {[1..k -> PsChars] : k \in 0..n}

\* Directives with one arrow, texts without an arrow, and one with two arrows.
PsDirectives ==
    {b \o <<">">> \o a : b \in PsStrings(MaxBefore), a \in PsStrings(MaxAfter)}
    \cup PsStrings(MaxBefore)
    \cup {<<"a", ">", "b", ">", "c">>}

PsInit ==
    /\ psInput \in PsDirectives
    /\ psStage = 0
    /\ psOut = Err("none", <<>>)

\* Replace::from_str(&directive)
PsParse ==
    /\ psStage = 0
    /\ psOut' = from_str(psInput)
    /\ psStage' = 1
    /\ UNCHANGED psInput
    /\ UNCHANGED <<runVars, rwVars, fpVars, trVars>>

PsNext == PsParse

InitParse == PsInit /\ RunIdle /\ RwIdle /\ FpIdle /\ TrIdle

SpecParse == InitParse /\ [][PsNext]_vars


(***************************************************************************)
(* Claims about the parser (checked under SpecParse)                       *)
(***************************************************************************)
\* The directive's text before and after its first arrow.
PsSides == SplitOnce(psInput, ">")

\* A side of the directive without its wildcard mark, if it has one.
Unmarked(side) == IF StartsWith(side, <<"*">>) THEN Tail(side) ELSE side

\* Every character is of the class [a-zA-Z0-9_\-.] and there is at least one.
IsName(s) == s # <<>> /\ \A i \in 1..Len(s) : s[i] \in NameChars

\* The directive has an arrow and both sides, wildcard marks apart, are names.
PsWellFormed == PsSides.found /\ IsName(Unmarked(PsSides.before)) /\ IsName(Unmarked(PsSides.after))

\* C15: a directive in which exactly one of the two sides starts with `*`
\* (`*x>y` or `x>*y`) fails with Unsupported; a parsed rule has root = FALSE
\* when both sides start with `*` and root = TRUE when neither does.
C15_WildcardMismatchUnsupported ==
    (psStage = 1 /\ PsWellFormed) =>
        LET markedBefore == StartsWith(PsSides.before, <<"*">>)
            markedAfter == StartsWith(PsSides.after, <<"*">>)
        IN /\ (markedBefore # markedAfter) => psOut = Err("Unsupported", <<>>)
           /\ (psOut.ok /\ markedBefore /\ markedAfter) => ~psOut.value.root
           /\ (psOut.ok /\ ~markedBefore /\ ~markedAfter) => psOut.value.root

\* The number of dots of a name: the nesting level of the field it names.
Dots(s) == Cardinality({i \in 1..Len(s) : s[i] = "."})

\* C16: in every parsed rule `from` and `to` are non-empty names of the
\* grammar and single segments without a dot; a directive whose `after` names
\* a field at another nesting level than `before` fails with Unsupported.
C16_SingleSegments ==
    psStage = 1 =>
        /\ psOut.ok =>
              /\ IsName(psOut.value.from) /\ ~Contains(psOut.value.from, ".")
              /\ IsName(psOut.value.to) /\ ~Contains(psOut.value.to, ".")
        /\ (PsWellFormed /\ Dots(PsSides.before) # Dots(PsSides.after))
              => psOut = Err("Unsupported", <<>>)


(***************************************************************************)
(* The two-run specification: two processes of the tool on one table, each *)
(* with its own rules, each confirmed with "Y".                            *)
(***************************************************************************)
Runs == {1, 2}

\* The --replace options of the two runs: a>b, a>c, a>k (overwrites the key),
\* b>c, b.a>b.b, k>c (renames the key), *a>*b (at every map), [a>b, b>a]
\* (back to the original) and [a>c, k>a] (the key's value under the name `a`).
TrRuleLists ==
    {<<RootRule(NameA, NameB)>>,
     <<RootRule(NameA, NameC)>>,
     <<RootRule(NameA, KeyAttr)>>,
     <<RootRule(NameB, NameC)>>,
     <<Replace(TRUE, NameB, NameA, NameB)>>,
     <<RootRule(KeyAttr, NameC)>>,
     <<Replace(FALSE, <<>>, NameA, NameB)>>,
     <<RootRule(NameA, NameB), RootRule(NameB, NameA)>>,
     <<RootRule(NameA, NameC), RootRule(KeyAttr, NameA)>>}

TrInit ==
    /\ trTable \in [Keys -> UNION {{Some(r) : r \in InitRows(key)} : key \in Keys}]
    /\ \A key \in Keys : trTable[key].row[KeyAttr] = S(key)
    /\ trRules \in [Runs -> TrRuleLists]
    /\ trPuts = <<TrNoRun, TrNoRun>>

\* Lines 159-177 of one run: the table scanned as it is now and its rows
\* rewritten; the run goes on to its puts if it has replacements (179-203).
TrScanRewrite(r) ==
    /\ ~trPuts[r].scanned
    /\ LET st == RewriteRows(Segment(trTable, 1, NKeys), trRules[r], 1,
                             [result |-> ReplaceResultDefault, dirty |-> <<>>])
       IN trPuts' = [trPuts EXCEPT ![r] = [scanned |-> TRUE,
                                           dirty |-> st.dirty,
                                           log |-> <<>>,
                                           stopped |-> st.result.replacements = 0]]
    /\ UNCHANGED <<trTable, trRules>>
    /\ UNCHANGED <<runVars, rwVars, fpVars, psVars>>

\* Lines 205-225 of one run: the next put, evaluated by the table; the run
\* goes on after Ok and exits after an error.
TrPut(r) ==
    /\ trPuts[r].scanned
    /\ ~trPuts[r].stopped
    /\ Len(trPuts[r].log) < Len(trPuts[r].dirty)
    /\ LET entry == trPuts[r].dirty[Len(trPuts[r].log) + 1]
       IN \E order \in Orders(DOMAIN entry.old) :
            \E res \in RemotePut(trTable, PutRequest(entry.old, entry.new, order)) :
                /\ trTable' = res.table
                /\ trPuts' = [trPuts EXCEPT ![r].log = Append(@, res.outcome),
                                            ![r].stopped = res.outcome # "ok"]
    /\ UNCHANGED trRules
    /\ UNCHANGED <<runVars, rwVars, fpVars, psVars>>

TrScanRewriteAny == \E r \in Runs : TrScanRewrite(r)

TrPutAny == \E r \in Runs : TrPut(r)

TrNext == TrScanRewriteAny \/ TrPutAny

InitTwoRuns == TrInit /\ RunIdle /\ RwIdle /\ FpIdle /\ PsIdle

SpecTwoRuns == InitTwoRuns /\ [][TrNext]_vars

(***************************************************************************)
(* Claims about two runs (checked under SpecTwoRuns)                       *)
(***************************************************************************)
\* The put for entry i of run r has been answered.
TrAnswered(r, i) == i <= Len(trPuts[r].log)

\* The table applied the put for entry i of run r.
TrApplied(r, i) == TrAnswered(r, i) /\ trPuts[r].log[i] \in {"ok", "lost_response"}

\* The table evaluated the put for entry i of run r.
TrEvaluated(r, i) ==
    TrAnswered(r, i) /\ trPuts[r].log[i] \in {"ok", "lost_response", "conflict"}

\* The rewritten record differs from the original in the key or the value of
\* a top-level field of the original.
DiffersInOriginalField(entry) ==
    \E f \in DOMAIN entry.old : f \notin DOMAIN entry.new \/ entry.new[f] # entry.old[f]

\* C18: when two runs, whatever their rules, have scanned the same stored
\* version of a record and both queued a write for it, at most one of the two
\* puts is applied and the other, once the table evaluates it, is rejected as
\* a conflict; every queued record differs from its original in the key or
\* the value of a top-level field of the original.
C18_AtMostOneWins ==
    /\ \A r \in Runs : \A i \in 1..Len(trPuts[r].dirty) :
          DiffersInOriginalField(trPuts[r].dirty[i])
    /\ \A i \in 1..Len(trPuts[1].dirty) : \A j \in 1..Len(trPuts[2].dirty) :
          trPuts[1].dirty[i].old = trPuts[2].dirty[j].old =>
              /\ ~(TrApplied(1, i) /\ TrApplied(2, j))
              /\ (TrApplied(1, i) /\ TrEvaluated(2, j)) => trPuts[2].log[j] = "conflict"
              /\ (TrApplied(2, j) /\ TrEvaluated(1, i)) => trPuts[1].log[i] = "conflict"

\* Both runs scanned {k: 1, a: 1}; run 1 (a>b) was applied, run 2 (a>c) was
\* rejected as a conflict.
C18_Witness ==
    /\ trRules = <<<<RootRule(NameA, NameB)>>, <<RootRule(NameA, NameC)>>>>
    /\ Len(trPuts[1].dirty) >= 1
    /\ Len(trPuts[2].dirty) >= 1
    /\ trPuts[1].dirty[1].old = (KeyAttr :> S(1)) @@ (NameA :> S(1))
    /\ trPuts[2].dirty[1].old = trPuts[1].dirty[1].old
    /\ TrApplied(1, 1)
    /\ TrAnswered(2, 1)
    /\ trPuts[2].log[1] = "conflict"
    /\ trTable[1] = Some((KeyAttr :> S(1)) @@ (NameB :> S(1)))

=============================================================================
